---- MODULE Spec2Model ----
(***************************************************************************)
(* A model of the Truncate rules engine: the move executor                 *)
(* (Board::make_move, resolve_attack, collect_combanants in moves.rs) and  *)
(* the judge (Judge::battle in judge.rs).  The board, the word discoverer, *)
(* truncation and the hands are collaborators of moves.rs; they are        *)
(* modelled from their specification and from the boards the tests of      *)
(* moves.rs construct and expect.                                          *)
(***************************************************************************)
EXTENDS Integers, Sequences, FiniteSets, TLC

(***************************************************************************)
(* Configuration of the game under analysis.                               *)
(***************************************************************************)

\* Board dimensions: a full rectangle, as the boards built by from_string.
Width == 3
Height == 3

\* One root and one orientation per player, player 0 first.
roots == << <<Width \div 2, 0>>, <<Width \div 2, Height - 1>> >>
orientations == << "North", "South" >>

\* The letters the tiles carry.
Letters == {"A", "B"}

\* Judge::new(words): the accepted words.
Dictionary == {"A", "AB", "BA", "ABA", "BAB", "ABAB", "BABAB"}

\* Number of tiles of each letter on each rack when the game starts.
RackInit == 2

\* Bounds of the inputs given to the judge when it is analysed on its own.
MaxAttackers == 2
MaxDefenders == 2

\* The words the judge is given when it is analysed on its own: accepted and
\* rejected words, of lengths 1 to 5.
JudgeWords == {"A", "B", "AB", "ABA", "BBB", "ABAB", "BABAB"}

(***************************************************************************)
(* Board (collaborator of moves.rs).                                       *)
(***************************************************************************)

NumPlayers == Len(roots)
Players == 0 .. (NumPlayers - 1)

Coords == (0 .. (Width - 1)) \X (0 .. (Height - 1))

\* Square::Empty and Square::Occupied(owner, letter)
Empty == <<>>
Occupied(p, l) == <<p, l>>
IsOccupied(sq) == sq # Empty
Owner(sq) == sq[1]
Letter(sq) == sq[2]

\* Board::get succeeds exactly on the coordinates inside the board
InBounds(c) == c \in Coords

get(g, c) == g[c]

set(g, c, p, l) == [g EXCEPT ![c] = Occupied(p, l)]

clear(g, c) == IF InBounds(c) THEN [g EXCEPT ![c] = Empty] ELSE g

\* Board::get_root succeeds exactly on the configured players
ValidPlayer(p) == p \in Players

get_root(p) == roots[p + 1]

OwnedBy(g, c, p) == InBounds(c) /\ IsOccupied(g[c]) /\ Owner(g[c]) = p

\* The cardinally adjacent in-bounds squares, each with its content.
neighbouring_squares(g, c) ==
    LET cand == << <<c[1], c[2] - 1>>, <<c[1], c[2] + 1>>,
                   <<c[1] + 1, c[2]>>, <<c[1] - 1, c[2]>> >>
        inb == SelectSeq(cand, InBounds)
    IN  [i \in 1 .. Len(inb) |-> <<inb[i], g[inb[i]]>>]

Reverse(s) == [i \in 1 .. Len(s) |-> s[Len(s) + 1 - i]]

\* The squares met walking from c (excluded) by steps of d while the owner
\* stays the same.
RECURSIVE Walk(_, _, _, _)
Walk(g, p, c, d) ==
    LET next == <<c[1] + d[1], c[2] + d[2]>>
    IN  IF OwnedBy(g, next, p) THEN <<next>> \o Walk(g, p, next, d) ELSE <<>>

\* The maximal run through c along the axis of d, in ascending coordinates.
AxisRun(g, c, d) ==
    LET p == Owner(g[c])
    IN  Reverse(Walk(g, p, c, <<0 - d[1], 0 - d[2]>>)) \o <<c>> \o Walk(g, p, c, d)

\* Words are listed from the owner's point of view: the player oriented
\* North reads them in descending coordinates.
Oriented(p, run) == IF orientations[p + 1] = "North" THEN Reverse(run) ELSE run

\* Board::get_words: the words through c, the vertical one first; a run of
\* one square counts only when both runs have one square.
get_words(g, c) ==
    IF ~(InBounds(c) /\ IsOccupied(g[c])) THEN <<>>
    ELSE LET p == Owner(g[c])
             v == Oriented(p, AxisRun(g, c, <<0, 1>>))
             h == Oriented(p, AxisRun(g, c, <<1, 0>>))
         IN  IF Len(v) > 1 /\ Len(h) > 1 THEN <<v, h>>
             ELSE IF Len(h) > 1 THEN <<h>>
             ELSE <<v>>

RECURSIVE word_string(_, _)
word_string(g, word) ==
    IF word = <<>> THEN ""
    ELSE Letter(g[Head(word)]) \o word_string(g, Tail(word))

\* Board::word_strings: the letters of each word; it fails when a square of
\* a word is empty.
word_strings_ok(g, words) ==
    \A i \in 1 .. Len(words) : \A j \in 1 .. Len(words[i]) :
        InBounds(words[i][j]) /\ IsOccupied(g[words[i][j]])

word_strings(g, words) == [i \in 1 .. Len(words) |-> word_string(g, words[i])]

(***************************************************************************)
(* Hands (collaborator of moves.rs): one rack per player and the bag the   *)
(* returned tiles go to.                                                   *)
(***************************************************************************)

HandsInit ==
    [rack |-> [p \in Players |-> [l \in Letters |-> RackInit]],
     bag  |-> [l \in Letters |-> 0]]

HasTile(h, p, t) == t \in Letters /\ h.rack[p][t] > 0

\* Hands::use_tile(player, tile), when it succeeds
use_tile(h, p, t) == [h EXCEPT !.rack[p][t] = @ - 1]

\* Hands::return_tile(letter)
return_tile(h, l) == [h EXCEPT !.bag[l] = @ + 1]

(***************************************************************************)
(* Judge (judge.rs).                                                       *)
(***************************************************************************)

NoBattle == [kind |-> "NoBattle", losers |-> <<>>]
DefenderWins == [kind |-> "DefenderWins", losers |-> <<>>]
AttackerWins(losers) == [kind |-> "AttackerWins", losers |-> losers]

valid(word) == word \in Dictionary

\* attackers_invalid looking at the first attacker only
attackers_invalid_first_only(attackers) == ~valid(attackers[1])

\* attackers.iter().map(|word| !self.valid(word)).reduce(|prev, curr| prev || curr)
RECURSIVE attackers_invalid(_)
attackers_invalid(attackers) ==
    IF Len(attackers) = 1 THEN ~valid(attackers[1])
    ELSE attackers_invalid(SubSeq(attackers, 1, Len(attackers) - 1))
            \/ ~valid(attackers[Len(attackers)])

\* longest_attacker that takes the first attacker
longest_attacker_first(attackers) == attackers[1]

\* attackers.iter().reduce(|longest, curr| if curr.len() > longest.len() ...)
RECURSIVE longest_attacker(_)
longest_attacker(attackers) ==
    IF Len(attackers) = 1 THEN attackers[1]
    ELSE LET longest == longest_attacker(SubSeq(attackers, 1, Len(attackers) - 1))
             curr == attackers[Len(attackers)]
         IN  IF Len(curr) > Len(longest) THEN curr ELSE longest

\* is_weak without the defender's advantage
is_weak_no_advantage(word, longest) == ~valid(word) \/ Len(word) < Len(longest)

\* The filter of weak_defenders
is_weak(word, longest) == ~valid(word) \/ Len(word) + 1 < Len(longest)

\* weak_defenders that stops at the first weak defender
weak_defenders_stop_at_first(defenders, longest) ==
    LET weak == SelectSeq([i \in 1 .. Len(defenders) |-> i - 1],
                          LAMBDA index : is_weak(defenders[index + 1], longest))
    IN  IF weak = <<>> THEN weak ELSE <<Head(weak)>>

\* Indices (from 0) of the weak defenders, ascending
weak_defenders(defenders, longest) ==
    SelectSeq([i \in 1 .. Len(defenders) |-> i - 1],
              LAMBDA index : is_weak(defenders[index + 1], longest))

\* battle with no battle only when both lists are empty
battle_both_empty(attackers, defenders) ==
    IF attackers = <<>> /\ defenders = <<>> THEN NoBattle
    ELSE IF attackers = <<>> THEN DefenderWins
    ELSE IF attackers_invalid(attackers) THEN DefenderWins
    ELSE LET weak == weak_defenders(defenders, longest_attacker(attackers))
         IN  IF weak = <<>> THEN DefenderWins ELSE AttackerWins(weak)

\* Judge::battle
battle(attackers, defenders) ==
    IF attackers = <<>> \/ defenders = <<>> THEN NoBattle
    ELSE IF attackers_invalid(attackers) THEN DefenderWins
    ELSE LET weak == weak_defenders(defenders, longest_attacker(attackers))
         IN  IF weak = <<>> THEN DefenderWins ELSE AttackerWins(weak)

\* Judge::battle gets past its first return and evaluates the two
\* expect("already checked length") on the reductions of attackers; a
\* reduction of an empty list is None, on which expect panics.
battle_reaches_expect(attackers, defenders) == ~(attackers = <<>> \/ defenders = <<>>)

battle_panics(attackers, defenders) ==
    battle_reaches_expect(attackers, defenders) /\ attackers = <<>>

(***************************************************************************)
(* The earlier judge (battle.rs).  Its Outcome has no list of indices; its *)
(* valid, attackers_invalid and longest_attacker read as those of judge.rs.*)
(***************************************************************************)

\* The values of Outcome in battle.rs, and the value before Battle is called
NotJudged == "NotJudged"
Outcome_NoBattle == "NoBattle"
Outcome_DefenderWins == "DefenderWins"
Outcome_AttackerWins == "AttackerWins"

\* The closure mapped over the defenders
is_strong(word, longest) == valid(word) /\ Len(word) + 1 >= Len(longest)

\* defenders_strong that asks for one strong defender only
RECURSIVE defenders_strong_any(_, _)
defenders_strong_any(defenders, longest) ==
    IF Len(defenders) = 1 THEN is_strong(defenders[1], longest)
    ELSE defenders_strong_any(SubSeq(defenders, 1, Len(defenders) - 1), longest)
            \/ is_strong(defenders[Len(defenders)], longest)

\* defenders.iter().map(...).reduce(|prev, curr| prev && curr)
RECURSIVE defenders_strong(_, _)
defenders_strong(defenders, longest) ==
    IF Len(defenders) = 1 THEN is_strong(defenders[1], longest)
    ELSE defenders_strong(SubSeq(defenders, 1, Len(defenders) - 1), longest)
            /\ is_strong(defenders[Len(defenders)], longest)

\* Judge::Battle of battle.rs
Battle(attackers, defenders) ==
    IF attackers = <<>> \/ defenders = <<>> THEN Outcome_NoBattle
    ELSE IF attackers_invalid(attackers) THEN Outcome_DefenderWins
    ELSE IF defenders_strong(defenders, longest_attacker(attackers))
        THEN Outcome_DefenderWins
    ELSE Outcome_AttackerWins

(***************************************************************************)
(* Attack resolution (moves.rs).  A board b is [grid, hands].              *)
(***************************************************************************)

\* clear_square without the call of return_tile
clear_square_keeps_letter(b, square) ==
    [grid |-> clear(b.grid, square), hands |-> b.hands]

\* The body of the loops over the squares of a word: the letter of an
\* occupied square goes back to the bag, then the square is cleared.
clear_square(b, square) ==
    [grid  |-> clear(b.grid, square),
     hands |-> IF InBounds(square) /\ IsOccupied(b.grid[square])
               THEN return_tile(b.hands, Letter(b.grid[square]))
               ELSE b.hands]

RECURSIVE clear_word(_, _)
clear_word(b, word) ==
    IF word = <<>> THEN b ELSE clear_word(clear_square(b, Head(word)), Tail(word))

\* clear_words that returns the letters every word held when the loop began
RECURSIVE clear_words_letters_of_each_word(_, _)
clear_words_letters_of_each_word(b, words) ==
    IF words = <<>> THEN b
    ELSE LET rest == clear_words_letters_of_each_word(b, Tail(words))
         IN  [grid  |-> clear_word(rest, Head(words)).grid,
              hands |-> clear_word([grid |-> b.grid, hands |-> rest.hands],
                                   Head(words)).hands]

RECURSIVE clear_words(_, _)
clear_words(b, words) ==
    IF words = <<>> THEN b ELSE clear_words(clear_word(b, Head(words)), Tail(words))

\* .flat_map(|(position, _)| self.get_words(*position)).collect()
RECURSIVE flat_map_words(_, _)
flat_map_words(g, positions) ==
    IF positions = <<>> THEN <<>>
    ELSE get_words(g, Head(positions)) \o flat_map_words(g, Tail(positions))

\* collect_combanants that takes every neighbouring position, occupied or
\* not, for a defending word of one square
collect_combanants_neighbours_as_words(g, player, position) ==
    LET nbs == neighbouring_squares(g, position)
    IN  [attackers |-> get_words(g, position),
         defenders |-> [i \in 1 .. Len(nbs) |-> <<nbs[i][1]>>]]

\* collect_combanants that takes every occupied neighbour for an enemy
collect_combanants_any_neighbour(g, player, position) ==
    LET nbs == neighbouring_squares(g, position)
        attacked == SelectSeq(nbs, LAMBDA n : IsOccupied(n[2]))
    IN  [attackers |-> get_words(g, position),
         defenders |-> flat_map_words(g, [i \in 1 .. Len(attacked) |-> attacked[i][1]])]

\* collect_combanants that stops at the first attacked neighbour
collect_combanants_first_neighbour(g, player, position) ==
    LET nbs == neighbouring_squares(g, position)
        attacked == SelectSeq(nbs, LAMBDA n : IsOccupied(n[2]) /\ player # Owner(n[2]))
    IN  [attackers |-> get_words(g, position),
         defenders |-> IF attacked = <<>> THEN <<>>
                       ELSE get_words(g, attacked[1][1])]

\* Board::collect_combanants: the words through the placed tile and the
\* words through the neighbours of another player
collect_combanants(g, player, position) ==
    LET nbs == neighbouring_squares(g, position)
        attacked == SelectSeq(nbs, LAMBDA n : IsOccupied(n[2]) /\ player # Owner(n[2]))
    IN  [attackers |-> get_words(g, position),
         defenders |-> flat_map_words(g, [i \in 1 .. Len(attacked) |-> attacked[i][1]])]

\* apply_outcome with the attacker words cleared too when the attacker wins
apply_outcome_both_pay(b, out, attackers, defenders) ==
    IF out.kind = "NoBattle" THEN b
    ELSE IF out.kind = "DefenderWins" THEN clear_words(b, attackers)
    ELSE clear_words(clear_words(b, attackers),
                     [i \in 1 .. Len(out.losers) |-> defenders[out.losers[i] + 1]])

\* apply_outcome with every defender word cleared when the attacker wins
apply_outcome_all_defenders(b, out, attackers, defenders) ==
    IF out.kind = "NoBattle" THEN b
    ELSE IF out.kind = "DefenderWins" THEN clear_words(b, attackers)
    ELSE clear_words(b, defenders)

\* apply_outcome with the first defender word cleared when the defender wins
apply_outcome_defender_pays(b, out, attackers, defenders) ==
    IF out.kind = "NoBattle" THEN b
    ELSE IF out.kind = "DefenderWins"
    THEN clear_word(clear_words(b, attackers), Head(defenders))
    ELSE clear_words(b, [i \in 1 .. Len(out.losers) |-> defenders[out.losers[i] + 1]])

\* The match on the outcome in resolve_attack
apply_outcome(b, out, attackers, defenders) ==
    IF out.kind = "NoBattle" THEN b
    ELSE IF out.kind = "DefenderWins" THEN clear_words(b, attackers)
    ELSE clear_words(b, [i \in 1 .. Len(out.losers) |-> defenders[out.losers[i] + 1]])

(***************************************************************************)
(* Truncation (collaborator of moves.rs).                                  *)
(***************************************************************************)

Adjacent(c, d) ==
    \/ c[1] = d[1] /\ (c[2] = d[2] + 1 \/ d[2] = c[2] + 1)
    \/ c[2] = d[2] /\ (c[1] = d[1] + 1 \/ d[1] = c[1] + 1)

\* The squares of the board, row by row
CoordSeq == [i \in 1 .. (Width * Height) |-> <<(i - 1) % Width, (i - 1) \div Width>>]

InSeq(s, c) == \E i \in 1 .. Len(s) : s[i] = c

\* The squares of owned joined to a square of seen by squares of owned
RECURSIVE Grow(_, _)
Grow(owned, seen) ==
    LET new == SelectSeq(owned, LAMBDA c :
                   ~InSeq(seen, c) /\ \E i \in 1 .. Len(seen) : Adjacent(c, seen[i]))
    IN  IF new = <<>> THEN seen ELSE Grow(owned, seen \o new)

\* The squares of p, in board order
OwnedSquares(g, p) == SelectSeq(CoordSeq, LAMBDA c : OwnedBy(g, c, p))

\* The squares of p joined to p's root by squares of p, the root first
Reached(g, p) ==
    IF OwnedBy(g, get_root(p), p)
    THEN Grow(OwnedSquares(g, p), <<get_root(p)>>)
    ELSE <<>>

Attached(g, p) == LET reached == Reached(g, p) IN {reached[i] : i \in 1 .. Len(reached)}

\* The squares of p that are not joined to p's root
StrandedOf(g, p) ==
    LET reached == Reached(g, p)
    IN  SelectSeq(OwnedSquares(g, p), LAMBDA c : ~InSeq(reached, c))

RECURSIVE StrandedFrom(_, _)
StrandedFrom(g, p) ==
    IF p = NumPlayers THEN <<>> ELSE StrandedOf(g, p) \o StrandedFrom(g, p + 1)

Stranded(g) == LET gone == StrandedFrom(g, 0) IN {gone[i] : i \in 1 .. Len(gone)}

\* truncate that clears the first stranded square only
truncate_one_square(b) ==
    LET gone == StrandedFrom(b.grid, 0)
    IN  IF gone = <<>> THEN b ELSE clear_word(b, <<Head(gone)>>)

\* Board::truncate(hands): every stranded square is cleared and its letter
\* returned
truncate(b) == clear_word(b, StrandedFrom(b.grid, 0))

\* resolve_attack with the truncation before the match on the outcome
resolve_attack_truncate_first(b, player, position) ==
    LET cc == collect_combanants(b.grid, player, position)
        out == battle(word_strings(b.grid, cc.attackers),
                      word_strings(b.grid, cc.defenders))
        mid == apply_outcome(truncate(b), out, cc.attackers, cc.defenders)
    IN  [attacking_words |-> word_strings(b.grid, cc.attackers),
         defending_words |-> word_strings(b.grid, cc.defenders),
         outcome |-> out, fought |-> mid, board |-> mid]

\* resolve_attack without the truncation
resolve_attack_untruncated(b, player, position) ==
    LET cc == collect_combanants(b.grid, player, position)
        out == battle(word_strings(b.grid, cc.attackers),
                      word_strings(b.grid, cc.defenders))
        mid == apply_outcome(b, out, cc.attackers, cc.defenders)
    IN  [attacking_words |-> word_strings(b.grid, cc.attackers),
         defending_words |-> word_strings(b.grid, cc.defenders),
         outcome |-> out, fought |-> mid, board |-> mid]

\* Board::resolve_attack: the combatants are collected, the judge is asked,
\* the outcome is applied and the board is truncated.  The value is the
\* board it leaves (board), with the words given to the judge, the outcome
\* the judge gave and the board as it stood between the match and the
\* truncation (fought).
resolve_attack(b, player, position) ==
    LET cc == collect_combanants(b.grid, player, position)
        out == battle(word_strings(b.grid, cc.attackers),
                      word_strings(b.grid, cc.defenders))
        mid == apply_outcome(b, out, cc.attackers, cc.defenders)
    IN  [attacking_words |-> word_strings(b.grid, cc.attackers),
         defending_words |-> word_strings(b.grid, cc.defenders),
         outcome |-> out, fought |-> mid, board |-> truncate(mid)]

\* An expect of resolve_attack or of the judge it calls panics: a square of
\* a collected word is empty (word_strings fails), the judge reduces an empty
\* list, or an index of AttackerWins(losers) is not one of a defender.
resolve_attack_panics(b, player, position) ==
    LET cc == collect_combanants(b.grid, player, position)
    IN  \/ ~word_strings_ok(b.grid, cc.attackers)
        \/ ~word_strings_ok(b.grid, cc.defenders)
        \/ battle_panics(word_strings(b.grid, cc.attackers),
                         word_strings(b.grid, cc.defenders))
        \/ LET out == battle(word_strings(b.grid, cc.attackers),
                             word_strings(b.grid, cc.defenders))
           IN  /\ out.kind = "AttackerWins"
               /\ \E i \in 1 .. Len(out.losers) : out.losers[i] >= Len(cc.defenders)

(***************************************************************************)
(* Board::make_move (moves.rs).                                            *)
(***************************************************************************)

Result(kind, position, player, tile) ==
    [kind |-> kind, position |-> position, player |-> player, tile |-> tile]

Ok == Result("Ok", <<>>, -1, "")
NoResult == Result("None", <<>>, -1, "")
NoOutcome == [kind |-> "None", losers |-> <<>>]

\* The squares occupied in g and empty in h, in board order
Vanished(g, h) == SelectSeq(CoordSeq, LAMBDA c : IsOccupied(g[c]) /\ ~IsOccupied(h[c]))

\* has_own_neighbour that accepts a neighbour of any owner
has_own_neighbour_any_owner(g, player, position) ==
    LET nbs == neighbouring_squares(g, position)
    IN  \E i \in 1 .. Len(nbs) : IsOccupied(nbs[i][2])

\* The neighbour test of the adjacency rule
has_own_neighbour(g, player, position) ==
    LET nbs == neighbouring_squares(g, position)
    IN  \E i \in 1 .. Len(nbs) : IsOccupied(nbs[i][2]) /\ Owner(nbs[i][2]) = player

\* place_result with the board written before the rack is asked for the tile
placed_before_use_tile(b, player, tile, position) ==
    [grid  |-> set(b.grid, position, player, tile),
     hands |-> b.hands]

\* place_result with the root of the player looked up before the square
place_result_player_first(b, player, tile, position) ==
    IF ~ValidPlayer(player)
        THEN Result("NonExistentPlayer", <<>>, player, "")
    ELSE IF ~InBounds(position)
        THEN Result("OutSideBoardDimensions", position, -1, "")
    ELSE IF IsOccupied(get(b.grid, position))
        THEN Result("OccupiedPlace", <<>>, -1, "")
    ELSE IF position # get_root(player) /\ ~has_own_neighbour(b.grid, player, position)
        THEN Result("NonAdjacentPlace", <<>>, -1, "")
    ELSE IF ~HasTile(b.hands, player, tile)
        THEN Result("PlayerDoesNotHaveTile", <<>>, player, tile)
    ELSE Ok

\* place_result with hands.use_tile before the adjacency rule
place_result_rack_before_adjacency(b, player, tile, position) ==
    IF ~InBounds(position)
        THEN Result("OutSideBoardDimensions", position, -1, "")
    ELSE IF IsOccupied(get(b.grid, position))
        THEN Result("OccupiedPlace", <<>>, -1, "")
    ELSE IF ~ValidPlayer(player)
        THEN Result("NonExistentPlayer", <<>>, player, "")
    ELSE IF ~HasTile(b.hands, player, tile)
        THEN Result("PlayerDoesNotHaveTile", <<>>, player, tile)
    ELSE IF position # get_root(player) /\ ~has_own_neighbour(b.grid, player, position)
        THEN Result("NonAdjacentPlace", <<>>, -1, "")
    ELSE Ok

\* place_result that reports a missing tile as a missing player
place_result_tile_as_player(b, player, tile, position) ==
    IF ~InBounds(position)
        THEN Result("OutSideBoardDimensions", position, -1, "")
    ELSE IF IsOccupied(get(b.grid, position))
        THEN Result("OccupiedPlace", <<>>, -1, "")
    ELSE IF ~ValidPlayer(player)
        THEN Result("NonExistentPlayer", <<>>, player, "")
    ELSE IF position # get_root(player) /\ ~has_own_neighbour(b.grid, player, position)
        THEN Result("NonAdjacentPlace", <<>>, -1, "")
    ELSE IF ~HasTile(b.hands, player, tile)
        THEN Result("NonExistentPlayer", <<>>, player, "")
    ELSE Ok

\* What make_move returns for Move::Place: the checks in the order of the code
place_result(b, player, tile, position) ==
    IF ~InBounds(position)
        THEN Result("OutSideBoardDimensions", position, -1, "")
    ELSE IF IsOccupied(get(b.grid, position))
        THEN Result("OccupiedPlace", <<>>, -1, "")
    ELSE IF ~ValidPlayer(player)
        THEN Result("NonExistentPlayer", <<>>, player, "")
    ELSE IF position # get_root(player) /\ ~has_own_neighbour(b.grid, player, position)
        THEN Result("NonAdjacentPlace", <<>>, -1, "")
    ELSE IF ~HasTile(b.hands, player, tile)
        THEN Result("PlayerDoesNotHaveTile", <<>>, player, tile)
    ELSE Ok

\* The board after hands.use_tile and self.set
placed(b, player, tile, position) ==
    [grid  |-> set(b.grid, position, player, tile),
     hands |-> use_tile(b.hands, player, tile)]

\* make_move for Move::Place with self.set called before hands.use_tile
make_move_place_set_first(b, player, tile, position) ==
    LET res == place_result(b, player, tile, position)
        early == IF res.kind = "PlayerDoesNotHaveTile"
                 THEN placed_before_use_tile(b, player, tile, position)
                 ELSE b
    IN  IF res.kind = "Ok"
        THEN LET before == placed(b, player, tile, position)
                 after == resolve_attack(before, player, position)
             IN  [grid |-> after.board.grid, hands |-> after.board.hands,
                  result |-> res, outcome |-> after.outcome,
                  attacking_words |-> after.attacking_words,
                  defending_words |-> after.defending_words,
                  fought |-> after.fought]
        ELSE [grid |-> early.grid, hands |-> early.hands, result |-> res,
              outcome |-> NoOutcome, attacking_words |-> <<>>,
              defending_words |-> <<>>, fought |-> early]

\* make_move for Move::Place: the board it leaves, what it returns and
\* the outcome of the battle it resolved (none when the move is rejected)
make_move_place(b, player, tile, position) ==
    LET res == place_result(b, player, tile, position)
    IN  IF res.kind = "Ok"
        THEN LET before == placed(b, player, tile, position)
                 after == resolve_attack(before, player, position)
             IN  [grid |-> after.board.grid, hands |-> after.board.hands,
                  result |-> res, outcome |-> after.outcome,
                  attacking_words |-> after.attacking_words,
                  defending_words |-> after.defending_words,
                  fought |-> after.fought]
        ELSE [grid |-> b.grid, hands |-> b.hands, result |-> res,
              outcome |-> NoOutcome, attacking_words |-> <<>>,
              defending_words |-> <<>>, fought |-> b]

\* Board::swap, as make_move calls it for Move::Swap
swap_result(b, player, positions) ==
    IF ~InBounds(positions[1])
        THEN Result("OutSideBoardDimensions", positions[1], -1, "")
    ELSE IF ~InBounds(positions[2])
        THEN Result("OutSideBoardDimensions", positions[2], -1, "")
    ELSE IF ~(OwnedBy(b.grid, positions[1], player) /\ OwnedBy(b.grid, positions[2], player))
        THEN Result("UnownedSwap", <<>>, -1, "")
    ELSE Ok

swapped(g, player, positions) ==
    [g EXCEPT ![positions[1]] = Occupied(player, Letter(g[positions[2]])),
              ![positions[2]] = Occupied(player, Letter(g[positions[1]]))]

\* make_move for Move::Swap with a swap that does not ask whose the squares are
make_move_swap_any_owner(b, player, positions) ==
    LET inside == InBounds(positions[1]) /\ InBounds(positions[2])
        both == inside /\ IsOccupied(b.grid[positions[1]])
                       /\ IsOccupied(b.grid[positions[2]])
        g == IF both
             THEN [b.grid EXCEPT
                     ![positions[1]] = Occupied(Owner(@), Letter(b.grid[positions[2]])),
                     ![positions[2]] = Occupied(Owner(@), Letter(b.grid[positions[1]]))]
             ELSE b.grid
    IN  [grid    |-> g,
         hands   |-> b.hands,
         result  |-> IF both THEN Ok ELSE swap_result(b, player, positions),
         outcome |-> NoOutcome,
         fought  |-> [grid |-> g, hands |-> b.hands]]

\* make_move for Move::Swap
make_move_swap(b, player, positions) ==
    LET res == swap_result(b, player, positions)
    IN  [grid    |-> IF res.kind = "Ok" THEN swapped(b.grid, player, positions)
                     ELSE b.grid,
         hands   |-> b.hands,
         result  |-> res,
         outcome |-> NoOutcome,
         fought  |-> IF res.kind = "Ok"
                     THEN [grid |-> swapped(b.grid, player, positions), hands |-> b.hands]
                     ELSE b]

(***************************************************************************)
(* Judge::winner (judge.rs) and the edges of the board it scans.           *)
(***************************************************************************)

\* Direction::opposite
opposite(direction) ==
    CASE direction = "North" -> "South"
      [] direction = "South" -> "North"
      [] direction = "East"  -> "West"
      [] direction = "West"  -> "East"

\* Board::get_edge: the squares of the edge on the side of the direction,
\* North being the row of ordinate 0
get_edge(direction) ==
    CASE direction = "North" -> SelectSeq(CoordSeq, LAMBDA c : c[2] = 0)
      [] direction = "South" -> SelectSeq(CoordSeq, LAMBDA c : c[2] = Height - 1)
      [] direction = "West"  -> SelectSeq(CoordSeq, LAMBDA c : c[1] = 0)
      [] direction = "East"  -> SelectSeq(CoordSeq, LAMBDA c : c[1] = Width - 1)

\* Option<usize>
None == <<>>
Some(p) == <<p>>

\* occupies_edge that does not compare the occupier with the player
occupies_edge_any_occupier(g, potential_winner) ==
    LET edge == get_edge(opposite(orientations[potential_winner + 1]))
    IN  \E i \in 1 .. Len(edge) : IsOccupied(g[edge[i]])

\* The inner loop of winner: a square of the edge opposite to the
\* orientation of the player is occupied by the player
occupies_edge(g, potential_winner) ==
    LET edge == get_edge(opposite(orientations[potential_winner + 1]))
    IN  \E i \in 1 .. Len(edge) :
            IsOccupied(g[edge[i]]) /\ potential_winner = Owner(g[edge[i]])

\* The outer loop of winner, from potential_winner on
RECURSIVE winner_from(_, _)
winner_from(g, potential_winner) ==
    IF potential_winner = NumPlayers THEN None
    ELSE IF occupies_edge(g, potential_winner) THEN Some(potential_winner)
    ELSE winner_from(g, potential_winner + 1)

\* Judge::winner
winner(g) == winner_from(g, 0)

(***************************************************************************)
(* The game as a state machine.                                            *)
(***************************************************************************)

VARIABLES
    grid,       \* the squares of the board
    hands,      \* the racks and the bag
    result,     \* what the last make_move returned
    outcome,    \* what the judge said in the last battle
    fought,     \* the board of the last move before its truncation, after the
                \* outcome of its battle was applied
    move,       \* the last move, when make_move accepted it
    attacking_words,  \* the attacking words last given to the judge
    defending_words,  \* the defending words last given to the judge
    won,              \* what Judge::winner returned, once it was asked
    earlier           \* what Judge::Battle of battle.rs returned, once it was asked

vars == <<grid, hands, result, outcome, fought, move, attacking_words, defending_words,
          won, earlier>>

board == [grid |-> grid, hands |-> hands]

\* enum Move
PlaceMove(player, tile, position) ==
    [kind |-> "Place", player |-> player, tile |-> tile, positions |-> <<position>>]
SwapMove(player, positions) ==
    [kind |-> "Swap", player |-> player, tile |-> "", positions |-> positions]
NoMove == [kind |-> "None", player |-> -1, tile |-> "", positions |-> <<>>]

\* Judge::winner was not asked; and what it returned when it was
NotAsked == [asked |-> FALSE, winner |-> None]
Asked(w) == [asked |-> TRUE, winner |-> w]

\* Inputs of the moves: the configured players and one more index; every
\* square of the board and a position outside it; for the swaps, the pairs
\* of different positions among the middle column and the outside position.
PlayerInputs == 0 .. NumPlayers
OutsidePosition == <<Width, 0>>
PositionInputs == Coords \cup {OutsidePosition}
SwapInputs ==
    LET ps == {c \in Coords : c[1] = Width \div 2} \cup {OutsidePosition}
    IN  {pp \in ps \X ps : pp[1] # pp[2]}

Init ==
    /\ grid = [c \in Coords |-> Empty]
    /\ hands = HandsInit
    /\ result = NoResult
    /\ outcome = NoOutcome
    /\ fought = [grid |-> grid, hands |-> hands]
    /\ move = NoMove
    /\ attacking_words = <<>>
    /\ defending_words = <<>>
    /\ won = NotAsked
    /\ earlier = NotJudged

\* make_move(Move::Place { player, tile, position })
Place(player, tile, position) ==
    \E m \in {make_move_place(board, player, tile, position)} :
        /\ grid' = m.grid
        /\ hands' = m.hands
        /\ result' = m.result
        /\ outcome' = m.outcome
        /\ fought' = m.fought
        /\ move' = IF m.result.kind = "Ok" THEN PlaceMove(player, tile, position)
                    ELSE NoMove
        /\ attacking_words' = m.attacking_words
        /\ defending_words' = m.defending_words
        /\ UNCHANGED <<won, earlier>>

\* make_move(Move::Swap { player, positions })
Swap(player, positions) ==
    \E m \in {make_move_swap(board, player, positions)} :
        /\ grid' = m.grid
        /\ hands' = m.hands
        /\ result' = m.result
        /\ outcome' = m.outcome
        /\ fought' = m.fought
        /\ move' = IF m.result.kind = "Ok" THEN SwapMove(player, positions)
                    ELSE NoMove
        /\ attacking_words' = <<>>
        /\ defending_words' = <<>>
        /\ UNCHANGED <<won, earlier>>

Next ==
    \/ \E player \in PlayerInputs, tile \in Letters, position \in PositionInputs :
           Place(player, tile, position)
    \/ \E player \in PlayerInputs, positions \in SwapInputs :
           Swap(player, positions)

Spec == Init /\ [][Next]_vars

(***************************************************************************)
(* The judge on its own: battle applied to lists of words.                 *)
(***************************************************************************)

RECURSIVE SeqsUpTo(_, _)
SeqsUpTo(S, n) ==
    IF n = 0 THEN {<<>>}
    ELSE LET shorter == SeqsUpTo(S, n - 1)
         IN  shorter \cup {Append(s, w) : s \in {t \in shorter : Len(t) = n - 1}, w \in S}

JudgeInit ==
    /\ grid = [c \in Coords |-> Empty]
    /\ hands = HandsInit
    /\ result = NoResult
    /\ outcome = NoOutcome
    /\ fought = [grid |-> grid, hands |-> hands]
    /\ move = NoMove
    /\ attacking_words \in SeqsUpTo(JudgeWords, MaxAttackers)
    /\ defending_words \in SeqsUpTo(JudgeWords, MaxDefenders)
    /\ won = NotAsked
    /\ earlier = NotJudged

\* judge.battle(attacking_words, defending_words)
JudgeBattle ==
    /\ outcome = NoOutcome
    /\ outcome' = battle(attacking_words, defending_words)
    /\ UNCHANGED <<grid, hands, result, fought, move, attacking_words, defending_words,
                   won, earlier>>

JudgeNext == JudgeBattle

JudgeSpec == JudgeInit /\ [][JudgeNext]_vars

(***************************************************************************)
(* The two judges side by side: Judge::Battle of battle.rs and             *)
(* Judge::battle of judge.rs are asked, in either order, about the same    *)
(* lists of words.                                                         *)
(***************************************************************************)

\* battle.Battle(attacking_words, defending_words)
EarlierBattle ==
    /\ earlier = NotJudged
    /\ earlier' = Battle(attacking_words, defending_words)
    /\ UNCHANGED <<grid, hands, result, outcome, fought, move, attacking_words,
                   defending_words, won>>

JudgesNext == JudgeBattle \/ EarlierBattle

JudgesSpec == JudgeInit /\ [][JudgesNext]_vars

(***************************************************************************)
(* Judge::winner on its own: asked once about a board.                     *)
(***************************************************************************)

\* The squares of the boards the winner is asked about: empty, or a tile of
\* one of the players
WinnerSquares == {Empty} \cup {Occupied(p, "A") : p \in Players}

WinnerInit ==
    /\ grid \in [Coords -> WinnerSquares]
    /\ hands = HandsInit
    /\ result = NoResult
    /\ outcome = NoOutcome
    /\ fought = [grid |-> grid, hands |-> hands]
    /\ move = NoMove
    /\ attacking_words = <<>>
    /\ defending_words = <<>>
    /\ won = NotAsked
    /\ earlier = NotJudged

\* Judge::winner(&board)
JudgeWinner ==
    /\ won = NotAsked
    /\ won' = Asked(winner(grid))
    /\ UNCHANGED <<grid, hands, result, outcome, fought, move, attacking_words,
                   defending_words, earlier>>

WinnerNext == JudgeWinner

WinnerSpec == WinnerInit /\ [][WinnerNext]_vars

(***************************************************************************)
(* Properties.                                                             *)
(***************************************************************************)

\* The squares of p joined to a square of S by squares of p
RECURSIVE Region(_, _, _)
Region(g, p, S) ==
    LET T == S \cup {c \in Coords : OwnedBy(g, c, p) /\ \E d \in S : Adjacent(c, d)}
    IN  IF T = S THEN S ELSE Region(g, p, T)

\* c is its owner's root, or a path of squares of its owner joins it to the
\* owner's root
JoinedToRoot(g, c) ==
    LET p == Owner(g[c])
    IN  \/ c = get_root(p)
        \/ OwnedBy(g, get_root(p), p) /\ c \in Region(g, p, {get_root(p)})

Connected(g) == \A c \in Coords : IsOccupied(g[c]) => JoinedToRoot(g, c)

\* The squares the truncation of the last move cleared
Truncated == Vanished(fought.grid, grid)

SquaresOf(p) == {c \in Coords : OwnedBy(grid, c, p)}

Rejected(r) == r.kind \notin {"Ok", "None"}

C2_RejectedMoveWritesNothing ==
    [][Rejected(result') => grid' = grid /\ hands' = hands]_vars

\* A Place rejected by the last check of its branch (the rack does not hold
\* the tile), on a board that holds tiles.
C2_Witness ==
    /\ result.kind = "PlayerDoesNotHaveTile"
    /\ \E c \in Coords : IsOccupied(grid[c])

Judged == outcome # NoOutcome

AllValid(words) == \A i \in 1 .. Len(words) : words[i] \in Dictionary

\* The length of the longest of the words
MaxLen(words) ==
    CHOOSE n \in {Len(words[i]) : i \in 1 .. Len(words)} :
        \A i \in 1 .. Len(words) : Len(words[i]) <= n

\* The positions (from 0) of the defenders that are not in the dictionary or
\* are at least 2 letters shorter than the longest attacker
WeakPositions(att, def) ==
    {i \in 0 .. (Len(def) - 1) :
        def[i + 1] \notin Dictionary \/ Len(def[i + 1]) + 1 < MaxLen(att)}

Ascending(s) == \A i \in 1 .. (Len(s) - 1) : s[i] < s[i + 1]

Elements(s) == {s[i] : i \in 1 .. Len(s)}

\* C3: with both lists non-empty and every attacker in the dictionary, the
\* judge answers DefenderWins when no defender is weak, and otherwise
\* AttackerWins with exactly the weak positions, in ascending order.
C3_BattleOutcome ==
    (Judged /\ attacking_words # <<>> /\ defending_words # <<>>
        /\ AllValid(attacking_words))
    => LET W == WeakPositions(attacking_words, defending_words)
       IN  IF W = {} THEN outcome = DefenderWins
           ELSE /\ outcome.kind = "AttackerWins"
                /\ Elements(outcome.losers) = W
                /\ Ascending(outcome.losers)

\* Two attackers of different lengths, the longer one first; one defender is
\* weak against the longer and the other is not.
C3_Witness ==
    /\ Judged
    /\ Len(attacking_words) = 2
    /\ AllValid(attacking_words)
    /\ Len(attacking_words[1]) > Len(attacking_words[2])
    /\ Len(defending_words) = 2
    /\ outcome = AttackerWins(<<1>>)
    /\ defending_words[2] \in Dictionary

\* C4: the judge answers NoBattle exactly when the attacker list or the
\* defender list is empty.
C4_NoBattle ==
    Judged => (outcome = NoBattle <=> (attacking_words = <<>> \/ defending_words = <<>>))

\* No attackers, and a defender that is not in the dictionary.
C4_Witness ==
    /\ Judged
    /\ outcome = NoBattle
    /\ attacking_words = <<>>
    /\ defending_words # <<>>
    /\ ~AllValid(defending_words)

\* C5 as stated: an attacker that is not in the dictionary gives
\* DefenderWins, whatever the defender list is.
C5_AsStated ==
    (Judged /\ ~AllValid(attacking_words)) => outcome = DefenderWins

\* C5: an attacker that is not in the dictionary gives DefenderWins, whatever
\* the words of a defender list that is not empty.
C5_InvalidAttacker ==
    (Judged /\ ~AllValid(attacking_words) /\ defending_words # <<>>)
    => outcome = DefenderWins

\* The invalid attacker comes after a valid and longer one, and a defender is
\* not in the dictionary.
C5_Witness ==
    /\ Judged
    /\ Len(attacking_words) = 2
    /\ attacking_words[1] \in Dictionary
    /\ attacking_words[2] \notin Dictionary
    /\ Len(attacking_words[1]) > Len(attacking_words[2])
    /\ defending_words # <<>>
    /\ ~AllValid(defending_words)
    /\ outcome = DefenderWins

\* The defender at position i (from 1) is not among the losers
Survives(out, i) == ~(out.kind = "AttackerWins" /\ (i - 1) \in Elements(out.losers))

Strong(word, att) == word \in Dictionary /\ Len(word) + 1 >= MaxLen(att)

\* C6 as stated: in every battle a defender survives exactly when it is in
\* the dictionary and its length + 1 is at least the longest attacker's.
C6_AsStated ==
    (Judged /\ attacking_words # <<>> /\ defending_words # <<>>)
    => \A i \in 1 .. Len(defending_words) :
           Survives(outcome, i) <=> Strong(defending_words[i], attacking_words)

\* C6: in every battle whose attackers are all in the dictionary, a defender
\* survives exactly when it is in the dictionary and its length + 1 is at
\* least the longest attacker's; it survives in the list exactly when it
\* survives as the only defender.
C6_DefenderSurvives ==
    (Judged /\ attacking_words # <<>> /\ defending_words # <<>>
        /\ AllValid(attacking_words))
    => \A i \in 1 .. Len(defending_words) :
           /\ Survives(outcome, i) <=> Strong(defending_words[i], attacking_words)
           /\ Survives(outcome, i)
                <=> Survives(battle(attacking_words, <<defending_words[i]>>), 1)

\* A defender in the dictionary and exactly one letter shorter than the
\* longest attacker survives next to one that falls.
C6_Witness ==
    /\ Judged
    /\ AllValid(attacking_words)
    /\ attacking_words # <<>>
    /\ Len(defending_words) = 2
    /\ outcome = AttackerWins(<<0>>)
    /\ defending_words[2] \in Dictionary
    /\ Len(defending_words[2]) + 1 = MaxLen(attacking_words)
    /\ defending_words[1] \in Dictionary

\* The squares of the words
SquaresOfWords(words) == UNION {Elements(words[i]) : i \in 1 .. Len(words)}

\* The squares of the defender words at the positions (from 0) of losers
WeakSquares(defenders, losers) ==
    UNION {Elements(defenders[i]) : i \in {j \in 1 .. Len(defenders) : (j - 1) \in Elements(losers)}}

\* The squares of the defender words at the other positions
StrongSquares(defenders, losers) ==
    UNION {Elements(defenders[i]) : i \in {j \in 1 .. Len(defenders) : (j - 1) \notin Elements(losers)}}

\* The number of squares of S that hold the letter l in g
LetterCount(g, S, l) == Cardinality({c \in S : IsOccupied(g[c]) /\ Letter(g[c]) = l})

\* The grid of a Place as the battle finds it: the tile is on its square
PlacedGrid(g, m) == set(g, m.positions[1], m.player, m.tile)

\* C7 as stated: when the attacker wins, every square of the weak defender
\* words is cleared, and every square of the other defender words and of the
\* attacker words is as it was before the outcome was applied.
C7_AsStated ==
    [][(move'.kind = "Place" /\ outcome'.kind = "AttackerWins")
        => LET before == PlacedGrid(grid, move')
               cc == collect_combanants(before, move'.player, move'.positions[1])
           IN  /\ \A c \in WeakSquares(cc.defenders, outcome'.losers) :
                      fought'.grid[c] = Empty
               /\ \A c \in StrongSquares(cc.defenders, outcome'.losers) :
                      fought'.grid[c] = before[c]
               /\ \A c \in SquaresOfWords(cc.attackers) :
                      fought'.grid[c] = before[c]]_vars

\* C7: when the attacker wins, applying the outcome clears every square of
\* the weak defender words and no other square: every square that lies in no
\* weak defender word (every square of the attacker words, every square of
\* another defender word that no weak word shares) holds the owner and
\* letter it held before.
C7_WeakWordsCleared ==
    [][(move'.kind = "Place" /\ outcome'.kind = "AttackerWins")
        => LET before == PlacedGrid(grid, move')
               cc == collect_combanants(before, move'.player, move'.positions[1])
               weak == WeakSquares(cc.defenders, outcome'.losers)
           IN  /\ \A c \in weak : fought'.grid[c] = Empty
               /\ \A c \in Coords \ weak : fought'.grid[c] = before[c]
               /\ SquaresOfWords(cc.attackers) \cap weak = {}]_vars

\* The attacker won against one of two defender words, and a square of the
\* other defender word is still occupied.
C7_Witness ==
    /\ move.kind = "Place"
    /\ outcome.kind = "AttackerWins"
    /\ Len(defending_words) = 2
    /\ Len(outcome.losers) = 1
    /\ \E c \in Coords : IsOccupied(fought.grid[c]) /\ Owner(fought.grid[c]) # move.player

\* C8: when the defender wins, every square of every attacker word, the
\* square of the placed tile among them, is empty after the move, and the
\* bag has received the letter of every square the move emptied.
C8_DefenderWinsClearsAttackers ==
    [][(move'.kind = "Place" /\ outcome' = DefenderWins)
        => LET before == PlacedGrid(grid, move')
               attackers == get_words(before, move'.positions[1])
               emptied == {c \in Coords : IsOccupied(before[c]) /\ ~IsOccupied(grid'[c])}
           IN  /\ move'.positions[1] \in SquaresOfWords(attackers)
               /\ \A c \in SquaresOfWords(attackers) : grid'[c] = Empty
               /\ \A l \in Letters :
                      hands'.bag[l] = hands.bag[l] + LetterCount(before, emptied, l)]_vars

\* The placed tile made a word of two letters or more that is not in the
\* dictionary, next to enemy words that all are.
C8_Witness ==
    /\ move.kind = "Place"
    /\ outcome = DefenderWins
    /\ \E i \in 1 .. Len(attacking_words) :
           Len(attacking_words[i]) >= 2 /\ attacking_words[i] \notin Dictionary
    /\ AllValid(defending_words)
    /\ grid[move.positions[1]] = Empty

\* C9: when a Place on a connected grid ends in DefenderWins, every square
\* another player owned holds the same owner and letter after the move.
C9_DefenderKeepsSquares ==
    [][(move'.kind = "Place" /\ outcome' = DefenderWins /\ Connected(grid))
        => \A c \in Coords :
               (IsOccupied(grid[c]) /\ Owner(grid[c]) # move'.player)
               => grid'[c] = grid[c]]_vars

\* The defender won with a word that is not in the dictionary, and the
\* truncation of the move cleared squares.
C9_Witness ==
    /\ move.kind = "Place"
    /\ outcome = DefenderWins
    /\ ~AllValid(defending_words)
    /\ Truncated # <<>>

\* The occupied squares of g that are not joined to their owner's root
Unreachable(g) == {c \in Coords : IsOccupied(g[c]) /\ ~JoinedToRoot(g, c)}

\* C10: the truncation at the end of a Place empties exactly the occupied
\* squares that are not joined to their owner's root and returns their
\* letters to the bag; every other square is as it was, and no occupied
\* root is emptied.
C10_Truncation ==
    move.kind = "Place"
    => /\ \A c \in Unreachable(fought.grid) : grid[c] = Empty
       /\ \A c \in Coords \ Unreachable(fought.grid) : grid[c] = fought.grid[c]
       /\ \A l \in Letters :
              hands.bag[l] = fought.hands.bag[l]
                                + LetterCount(fought.grid, Unreachable(fought.grid), l)
       /\ hands.rack = fought.hands.rack
       /\ \A p \in Players :
              IsOccupied(fought.grid[get_root(p)])
              => grid[get_root(p)] = fought.grid[get_root(p)]

\* The attacker won, the truncation then cleared squares of the defender
\* beyond the removed word, and squares of both players are left.
C10_Witness ==
    /\ move.kind = "Place"
    /\ outcome.kind = "AttackerWins"
    /\ Truncated # <<>>
    /\ \A p \in Players : SquaresOf(p) # {}
    /\ \E p \in Players : IsOccupied(grid[get_root(p)])

\* C11: truncation is idempotent: run a second time right after a first
\* run, it changes no square and returns no further tile.
C11_TruncateIdempotent ==
    /\ truncate(truncate(fought)) = truncate(fought)
    /\ move.kind = "Place" => truncate(board) = board

\* The truncation of the last Place cleared two squares or more and left
\* squares on the board.
C11_Witness ==
    /\ move.kind = "Place"
    /\ Len(Truncated) >= 2
    /\ \E c \in Coords : IsOccupied(grid[c])

\* The players, tiles and positions a Place is tried with
PlaceInputs == PlayerInputs \X Letters \X PositionInputs

\* What make_move does with the Place in, on the board as it stands
Tried(in) == make_move_place(board, in[1], in[2], in[3])

\* A cardinal neighbour of c holds a tile of p
OwnCardinalNeighbour(g, p, c) == \E d \in Coords : Adjacent(c, d) /\ OwnedBy(g, d, p)

\* C12: a Place outside the grid fails with the out-of-bounds error carrying
\* the position, and a Place on an occupied square fails with the
\* occupied-square error, whoever owns the square, whatever the player
\* (configured or not) and the tile (on the rack or not).
C12_PositionErrors ==
    \A in \in PlaceInputs :
        /\ in[3] \notin Coords
            => Tried(in).result = Result("OutSideBoardDimensions", in[3], -1, "")
        /\ (in[3] \in Coords /\ grid[in[3]] # Empty)
            => Tried(in).result = Result("OccupiedPlace", <<>>, -1, "")

\* The last Place was refused because its square is occupied, on a board
\* with squares of both players, while a rack lacks a letter.
C12_Witness ==
    /\ result.kind = "OccupiedPlace"
    /\ \A p \in Players : SquaresOf(p) # {}
    /\ \E p \in Players, l \in Letters : hands.rack[p][l] = 0

\* C13: a Place by a configured player on an empty square that is not the
\* player's root fails with the non-adjacent-placement error exactly when no
\* cardinal neighbour holds a tile of that player; a Place on the player's
\* empty root is never refused by this rule.
C13_AdjacencyRule ==
    \A in \in PlaceInputs :
        (in[1] \in Players /\ in[3] \in Coords /\ grid[in[3]] = Empty)
        => (Tried(in).result.kind = "NonAdjacentPlace"
              <=> (in[3] # get_root(in[1]) /\ ~OwnCardinalNeighbour(grid, in[1], in[3])))

\* The last Place was refused by the adjacency rule, and an empty square has
\* a diagonal neighbour of a player, a cardinal neighbour of the other
\* player and no cardinal neighbour of the first.
C13_Witness ==
    /\ result.kind = "NonAdjacentPlace"
    /\ \E p \in Players, c \in Coords :
        /\ grid[c] = Empty
        /\ c # get_root(p)
        /\ ~OwnCardinalNeighbour(grid, p, c)
        /\ \E d \in Coords : Adjacent(c, d) /\ IsOccupied(grid[d])
        /\ \E d \in Coords :
               d[1] # c[1] /\ d[2] # c[2] /\ OwnedBy(grid, d, p)
               /\ d[1] - c[1] \in {-1, 1} /\ d[2] - c[2] \in {-1, 1}

\* The Place passes the position checks: the square is on the board and
\* empty, and it is the root of the player or next to a tile of the player
PassesPositionChecks(g, p, c) ==
    /\ c \in Coords
    /\ g[c] = Empty
    /\ p \in Players
    /\ (c = get_root(p) \/ OwnCardinalNeighbour(g, p, c))

LacksTile(h, p, t) == h.rack[p][t] = 0

\* The second half of C14: a Place that passes the position checks with a
\* tile the rack lacks fails with the tile-unavailable error naming player
\* and tile, and writes nothing.
TileUnavailable(in) ==
    (PassesPositionChecks(grid, in[1], in[3]) /\ LacksTile(hands, in[1], in[2]))
    => /\ Tried(in).result = Result("PlayerDoesNotHaveTile", <<>>, in[1], in[2])
       /\ Tried(in).grid = grid
       /\ Tried(in).hands = hands

\* C14 as stated: every Place by a player index that is not configured
\* fails with the invalid-player error naming the index.
C14_AsStated ==
    \A in \in PlaceInputs :
        /\ in[1] \notin Players
            => /\ Tried(in).result = Result("NonExistentPlayer", <<>>, in[1], "")
               /\ Tried(in).grid = grid
        /\ TileUnavailable(in)

\* C14: a Place on an empty square of the board by a player index that is
\* not configured fails with the invalid-player error naming the index; a
\* Place that passes the position checks with a tile the rack lacks fails
\* with the tile-unavailable error naming player and tile; neither writes
\* the tile to the grid.
C14_PlayerAndTileErrors ==
    \A in \in PlaceInputs :
        /\ (in[1] \notin Players /\ in[3] \in Coords /\ grid[in[3]] = Empty)
            => /\ Tried(in).result = Result("NonExistentPlayer", <<>>, in[1], "")
               /\ Tried(in).grid = grid
        /\ TileUnavailable(in)

\* The last Place was refused for a tile the rack lacks, by a player who
\* holds squares and still has the other letter.
C14_Witness ==
    /\ result.kind = "PlayerDoesNotHaveTile"
    /\ LacksTile(hands, result.player, result.tile)
    /\ SquaresOf(result.player) # {}
    /\ \E l \in Letters : hands.rack[result.player][l] > 0

\* C15: a Swap succeeds exactly when both positions hold tiles of its
\* player; when it succeeds the two letters are exchanged, every owner and
\* every other square stay as they were, no battle is judged and no hand
\* changes.
C15_Swap ==
    \A player \in PlayerInputs, positions \in SwapInputs :
        LET p1 == positions[1]
            p2 == positions[2]
            m == make_move_swap(board, player, positions)
        IN  /\ m.result.kind = "Ok" <=> (OwnedBy(grid, p1, player) /\ OwnedBy(grid, p2, player))
            /\ m.result.kind # "Ok" => m.grid = grid
            /\ m.result.kind = "Ok"
                => /\ m.grid[p1] = <<Owner(grid[p1]), Letter(grid[p2])>>
                   /\ m.grid[p2] = <<Owner(grid[p2]), Letter(grid[p1])>>
                   /\ \A c \in Coords \ {p1, p2} : m.grid[c] = grid[c]
            /\ m.hands = hands
            /\ m.outcome = NoOutcome
            /\ m.fought.grid = m.grid

\* The last move was a Swap of two different letters, with squares of the
\* other player on the board.
C15_Witness ==
    /\ move.kind = "Swap"
    /\ result.kind = "Ok"
    /\ Letter(grid[move.positions[1]]) # Letter(grid[move.positions[2]])
    /\ \E c \in Coords : IsOccupied(grid[c]) /\ Owner(grid[c]) # move.player

\* A cardinal neighbour of c holds a tile of a player other than p
EnemyCardinalNeighbour(g, p, c) ==
    \E d \in Coords : Adjacent(c, d) /\ IsOccupied(g[d]) /\ Owner(g[d]) # p

\* C16: an accepted Place with no cardinal neighbour of another player does
\* not fight: the outcome is NoBattle, on a connected grid the grid changes
\* in the placed square only, and the hands lose the placed tile only.
C16_NoNeighbourNoBattle ==
    [][(move'.kind = "Place"
          /\ ~EnemyCardinalNeighbour(grid, move'.player, move'.positions[1]))
        => /\ outcome' = NoBattle
           /\ Connected(grid)
               => grid' = [grid EXCEPT ![move'.positions[1]] = <<move'.player, move'.tile>>]
           /\ hands' = [hands EXCEPT !.rack[move'.player][move'.tile] = @ - 1]]_vars

\* A Place next to an own tile and diagonal to a tile of the other player
\* ended without a battle.
C16_Witness ==
    /\ move.kind = "Place"
    /\ outcome = NoBattle
    /\ OwnCardinalNeighbour(grid, move.player, move.positions[1])
    /\ ~EnemyCardinalNeighbour(grid, move.player, move.positions[1])
    /\ \E d \in Coords :
           /\ IsOccupied(grid[d]) /\ Owner(grid[d]) # move.player
           /\ d[1] - move.positions[1][1] \in {-1, 1}
           /\ d[2] - move.positions[1][2] \in {-1, 1}

\* The squares from c to d, the ends included, when they share a column or
\* a row
Stretch(c, d) ==
    IF c[1] = d[1]
    THEN {<<c[1], y>> : y \in (IF c[2] <= d[2] THEN c[2] .. d[2] ELSE d[2] .. c[2])}
    ELSE {<<x, c[2]>> : x \in (IF c[1] <= d[1] THEN c[1] .. d[1] ELSE d[1] .. c[1])}

\* The squares of the column ("v") or the row ("h") of c
Axis(c, axis) ==
    IF axis = "v" THEN {<<c[1], y>> : y \in 0 .. (Height - 1)}
    ELSE {<<x, c[2]>> : x \in 0 .. (Width - 1)}

\* The maximal straight run through the occupied square c of squares of its
\* owner, along the column ("v") or the row ("h")
RunSet(g, c, axis) ==
    {d \in Axis(c, axis) : \A e \in Stretch(c, d) : OwnedBy(g, e, Owner(g[c]))}

\* The runs get reported as words through c: each run of two squares or
\* more, and the square alone when neither run has two
RunsReported(g, c) ==
    LET V == RunSet(g, c, "v")
        H == RunSet(g, c, "h")
    IN  IF Cardinality(V) > 1 /\ Cardinality(H) > 1 THEN {V, H}
        ELSE IF Cardinality(V) > 1 THEN {V}
        ELSE IF Cardinality(H) > 1 THEN {H}
        ELSE {{c}}

\* A word lists each of its squares once, each next to the one before
Straight(word) ==
    /\ Len(word) = Cardinality(Elements(word))
    /\ \A i \in 1 .. (Len(word) - 1) : Adjacent(word[i], word[i + 1])

\* The squares next to c that hold a tile of a player other than p
Attacked(g, p, c) ==
    {d \in Coords : Adjacent(c, d) /\ IsOccupied(g[d]) /\ Owner(g[d]) # p}

\* The combatants cc are as C17 says for the tile of p on c in g
CombatantsAsClaimed(g, p, c, cc) ==
    LET attacked == Attacked(g, p, c)
        own == RunsReported(g, c)
    IN  /\ Len(cc.attackers) \in {1, 2}
        /\ \A i \in 1 .. Len(cc.attackers) :
               Straight(cc.attackers[i]) /\ c \in Elements(cc.attackers[i])
        /\ {Elements(cc.attackers[i]) : i \in 1 .. Len(cc.attackers)} = own
        /\ Len(cc.attackers) = Cardinality(own)
        /\ \A i \in 1 .. Len(cc.defenders) :
               /\ Straight(cc.defenders[i])
               /\ \E n \in attacked :
                      /\ n \in Elements(cc.defenders[i])
                      /\ Elements(cc.defenders[i]) \in RunsReported(g, n)
               /\ \A d \in Elements(cc.defenders[i]) : ~OwnedBy(g, d, p)
        /\ {Elements(cc.defenders[i]) : i \in 1 .. Len(cc.defenders)}
               = UNION {RunsReported(g, n) : n \in attacked}
        /\ Len(cc.defenders)
               = Cardinality({nk \in attacked \X {1, 2} :
                                 nk[2] <= Cardinality(RunsReported(g, nk[1]))})

\* C17: for the tile a Place puts on c for p, the attacker words are the
\* one or two maximal straight runs of squares of p through c (a run of one
\* square only when c has no neighbour of p), and the defender words are
\* the words through each neighbour of c held by another player, one entry
\* per neighbour and word, each containing such a neighbour and no square
\* of p.
C17_Combatants ==
    [][move'.kind = "Place"
        => \E before \in {PlacedGrid(grid, move')} :
             \E cc \in {collect_combanants(before, move'.player, move'.positions[1])} :
               /\ CombatantsAsClaimed(before, move'.player, move'.positions[1], cc)
               /\ attacking_words' = word_strings(before, cc.attackers)
               /\ defending_words' = word_strings(before, cc.defenders)]_vars

\* The placed tile joined a column and a row of its player and touched two
\* squares of the other player.
C17_Witness ==
    /\ move.kind = "Place"
    /\ Len(attacking_words) = 2
    /\ Len(defending_words) >= 2
    /\ outcome.kind \in {"DefenderWins", "AttackerWins"}

\* The squares of the edge opposite to the orientation of p
FarEdge(p) ==
    CASE orientations[p + 1] = "North" -> {c \in Coords : c[2] = Height - 1}
      [] orientations[p + 1] = "South" -> {c \in Coords : c[2] = 0}
      [] orientations[p + 1] = "East"  -> {c \in Coords : c[1] = 0}
      [] orientations[p + 1] = "West"  -> {c \in Coords : c[1] = Width - 1}

\* p has a tile of its own on its far edge
Reached_FarEdge(g, p) == \E c \in FarEdge(p) : OwnedBy(g, c, p)

\* C18: winner returns Some(p) exactly when p has a tile of its own on the
\* edge opposite to its orientation and no player of lower index has one on
\* its own opposite edge; it returns None exactly when no player has one.
C18_Winner ==
    won.asked
    => /\ \A p \in Players :
              won.winner = Some(p)
              <=> /\ Reached_FarEdge(grid, p)
                  /\ \A q \in 0 .. (p - 1) : ~Reached_FarEdge(grid, q)
       /\ won.winner = None <=> \A p \in Players : ~Reached_FarEdge(grid, p)
       /\ won.winner \in {None} \cup {Some(p) : p \in Players}

\* Player 1 wins on a board where each player has a tile on the far edge of
\* the other and player 0 has none on its own.
C18_Witness ==
    /\ won = Asked(Some(1))
    /\ \E c \in FarEdge(1) : OwnedBy(grid, c, 0)
    /\ \E c \in FarEdge(0) : OwnedBy(grid, c, 1)

\* C19: after a Place whose battle the attacker won, no cardinal neighbour
\* of the placed position is occupied by a player other than the placing one.
C19_AsStated ==
    (move.kind = "Place" /\ outcome.kind = "AttackerWins")
    => ~EnemyCardinalNeighbour(grid, move.player, move.positions[1])

\* The checks a Place fails on the current board
OffBoardOrOccupied(in) == in[3] \notin Coords \/ grid[in[3]] # Empty
UnknownPlayer(in) == in[1] \notin Players
NotAdjacent(in) ==
    /\ in[3] \in Coords
    /\ ~OwnCardinalNeighbour(grid, in[1], in[3])
    /\ (in[1] \in Players => in[3] # roots[in[1] + 1])
TileMissing(in) == in[1] \in Players /\ LacksTile(hands, in[1], in[2])

\* The error of the position check
PositionError(in) ==
    IF in[3] \notin Coords THEN "OutSideBoardDimensions" ELSE "OccupiedPlace"

\* The error of the earliest violated check, in the order of the
\* specification: position, adjacency, then the inventory
StatedError(in) ==
    IF OffBoardOrOccupied(in) THEN PositionError(in)
    ELSE IF NotAdjacent(in) THEN "NonAdjacentPlace"
    ELSE IF UnknownPlayer(in) THEN "NonExistentPlayer"
    ELSE IF TileMissing(in) THEN "PlayerDoesNotHaveTile"
    ELSE "Ok"

\* The same with the player looked up before the adjacency rule
RootFirstError(in) ==
    IF OffBoardOrOccupied(in) THEN PositionError(in)
    ELSE IF UnknownPlayer(in) THEN "NonExistentPlayer"
    ELSE IF NotAdjacent(in) THEN "NonAdjacentPlace"
    ELSE IF TileMissing(in) THEN "PlayerDoesNotHaveTile"
    ELSE "Ok"

\* C20 as stated: a Place reports the error of the earliest check it
\* violates in the order position, adjacency, inventory; a Place by an
\* unknown player on an empty square with no neighbour of that player
\* reports the non-adjacent-placement error.
C20_AsStated == \A in \in PlaceInputs : Tried(in).result.kind = StatedError(in)

\* C20: a Place reports the error of the earliest check it violates in the
\* order position (off the board or occupied), existence of the player,
\* adjacency, availability of the tile; a Place on an occupied square with a
\* tile the player lacks reports the occupied-square error, and a Place by
\* an unknown player on an empty square reports the invalid-player error.
C20_CheckOrder == \A in \in PlaceInputs : Tried(in).result.kind = RootFirstError(in)

\* On the current board some Place violates the position check and lacks
\* the tile, and some Place by a player of the game violates the adjacency
\* rule and lacks the tile; the last Place was refused.
C20_Witness ==
    /\ result.kind = "NonAdjacentPlace"
    /\ \E in \in PlaceInputs :
           /\ in[3] \in Coords /\ OffBoardOrOccupied(in) /\ TileMissing(in)
           /\ Tried(in).result.kind = "OccupiedPlace"
    /\ \E in \in PlaceInputs :
           /\ ~OffBoardOrOccupied(in) /\ NotAdjacent(in) /\ TileMissing(in)
           /\ Tried(in).result.kind = "NonAdjacentPlace"
    /\ \E in \in PlaceInputs :
           /\ ~OffBoardOrOccupied(in) /\ UnknownPlayer(in)
           /\ Tried(in).result.kind = "NonExistentPlayer"

\* The squares occupied in g and empty in h
Emptied(g, h) == {c \in Coords : IsOccupied(g[c]) /\ ~IsOccupied(h[c])}

\* From g to h squares are only emptied, and the bag went from bag to bag2 by
\* one letter for each emptied square, the letter the square held
ReturnedOncePerSquare(g, h, bag, bag2) ==
    /\ \A c \in Coords : h[c] = g[c] \/ (IsOccupied(g[c]) /\ h[c] = Empty)
    /\ \A l \in Letters : bag2[l] = bag[l] + LetterCount(g, Emptied(g, h), l)

\* C21: in an accepted Place the bag receives, in the attack resolution and
\* in the truncation that follows, exactly one letter for each square that
\* goes from occupied to empty, the letter of that square, also when the
\* cleared words share squares; no square is written otherwise, and the
\* racks change by the placed tile only.
C21_TileConservation ==
    [][move'.kind = "Place"
        => \E before \in {PlacedGrid(grid, move')} :
               /\ ReturnedOncePerSquare(before, fought'.grid,
                                        hands.bag, fought'.hands.bag)
               /\ ReturnedOncePerSquare(fought'.grid, grid',
                                        fought'.hands.bag, hands'.bag)
               /\ hands'.rack = use_tile(hands, move'.player, move'.tile).rack]_vars

\* The defender won against two attacker words of two letters or more,
\* which share the square of the placed tile; the move emptied it.
C21_Witness ==
    /\ move.kind = "Place"
    /\ outcome = DefenderWins
    /\ Len(attacking_words) = 2
    /\ Len(attacking_words[1]) >= 2
    /\ Len(attacking_words[2]) >= 2
    /\ grid[move.positions[1]] = Empty

\* C22: asked about the same lists of words, the judge of battle.rs and the
\* judge of judge.rs agree once the list of weak indices is dropped: NoBattle
\* for NoBattle, DefenderWins for DefenderWins, and AttackerWins exactly when
\* the judge of judge.rs answers AttackerWins with a list that is not empty.
C22_JudgesAgree ==
    (Judged /\ earlier # NotJudged)
    => /\ earlier = Outcome_NoBattle <=> outcome = NoBattle
       /\ earlier = Outcome_DefenderWins <=> outcome = DefenderWins
       /\ earlier = Outcome_AttackerWins
              <=> (outcome.kind = "AttackerWins" /\ outcome.losers # <<>>)
       /\ earlier \in {Outcome_NoBattle, Outcome_DefenderWins, Outcome_AttackerWins}

\* Both judges were asked and the attacker won: one defender is strong, the
\* other is in the dictionary and too short.
C22_Witness ==
    /\ earlier = Outcome_AttackerWins
    /\ Judged
    /\ AllValid(defending_words)
    /\ Len(outcome.losers) = 1
    /\ Len(defending_words) = 2

\* C23: no Place that passes the checks of make_move panics in the attack
\* resolution: every square of the attacker and defender words collected
\* around the placed tile is occupied, the judge reduces no empty list, and
\* every index in AttackerWins(losers) is smaller than the number of defender
\* words collected.
C23_NoPanic ==
    \A in \in PlaceInputs :
        place_result(board, in[1], in[2], in[3]).kind = "Ok"
        => ~resolve_attack_panics(placed(board, in[1], in[2], in[3]), in[1], in[3])

\* The attacker won a battle against two defender words or more, and the
\* last of them is among the losers.
C23_Witness ==
    /\ move.kind = "Place"
    /\ outcome.kind = "AttackerWins"
    /\ Len(defending_words) >= 2
    /\ outcome.losers[Len(outcome.losers)] = Len(defending_words) - 1
    /\ Len(attacking_words) = 2

\* The squares of p in g
Holdings(g, p) == {c \in Coords : OwnedBy(g, c, p)}

\* C24: after an accepted Place on a connected grid that ends in NoBattle or
\* AttackerWins, truncation included, the placed position holds the player
\* and the tile and every square the player owned before the move is as it
\* was; an accepted Place on a connected grid that empties a square of the
\* placing player, the placed one among them, ended in DefenderWins.
C24_AttackerKeepsSquares ==
    [][(move'.kind = "Place" /\ Connected(grid))
        => \E before \in {PlacedGrid(grid, move')} :
               /\ outcome'.kind \in {"NoBattle", "AttackerWins"}
                    => /\ grid'[move'.positions[1]] = Occupied(move'.player, move'.tile)
                       /\ \A c \in Holdings(grid, move'.player) : grid'[c] = grid[c]
               /\ (\E c \in Holdings(before, move'.player) : grid'[c] # before[c])
                    => outcome' = DefenderWins]_vars

\* The attacker won, the truncation that followed removed squares, and the
\* attacker holds three squares or more.
C24_Witness ==
    /\ move.kind = "Place"
    /\ outcome.kind = "AttackerWins"
    /\ Len(Truncated) >= 1
    /\ Cardinality(Holdings(grid, move.player)) >= 3

\* The lists that hold the words of words in another order, words included
Reorderings(words) ==
    {[i \in 1 .. Len(words) |-> words[f[i]]] : f \in Permutations(1 .. Len(words))}

\* C25: the judge gives every reordering of the attackers the outcome it
\* gives the attackers, weak indices included; the indices of an
\* AttackerWins are not empty, strictly increasing, and each is the position
\* (from 0) of a defender.
C25_AttackerOrder ==
    Judged
    => /\ \A reordered \in Reorderings(attacking_words) :
              battle(reordered, defending_words) = outcome
       /\ outcome.kind = "AttackerWins"
              => /\ outcome.losers # <<>>
                 /\ Ascending(outcome.losers)
                 /\ \A i \in 1 .. Len(outcome.losers) :
                        outcome.losers[i] \in 0 .. (Len(defending_words) - 1)

\* The attacker won with two attackers of different lengths, the shorter one
\* first, against two weak defenders.
C25_Witness ==
    /\ Judged
    /\ Len(attacking_words) = 2
    /\ Len(attacking_words[1]) < Len(attacking_words[2])
    /\ outcome = AttackerWins(<<0, 1>>)
    /\ AllValid(defending_words)

====
